---- MODULE Spec2Model ----
(***************************************************************************)
(* State-machine model of the resilient WebSocket client                   *)
(* (src/src/services/WebSocketClient.js).  One client instance, the        *)
(* transports it has constructed, its timers, its outbound queue and the   *)
(* browser events it listens to.  Every action is one JavaScript task:     *)
(* a public method call, a timer callback, a DOM event listener, a         *)
(* transport callback or the resumption of a suspended _connect().         *)
(***************************************************************************)
EXTENDS Integers, Sequences, FiniteSets, TLC

\* ---------------------------------------------------------------- bounds
MaxSockets  == 2    \* transports the client may construct in one run
MaxSends    == 2    \* send() calls in one run (each payload gets a fresh id)
MaxRetries  == 2    \* cap of the retry counter
MaxInflight == 1    \* _connect() calls suspended on the token provider
MaxInterval == 2    \* largest pingInterval / pongTimeout, in time units
MaxSlashes  == 2    \* trailing slashes of a base
MaxQueueMax == 2    \* largest configured queueMax
RandDen     == 2    \* Math.random() is drawn from {0/RandDen .. (RandDen-1)/RandDen}

\* ------------------------------------------------------ program constants
BaseUnit  == 300    \* 300 * 2 ** retries
SoonDelay == 200    \* expedited reconnect delay
NoTimer   == -1     \* a timer handle that is not pending

Sockets == 1..MaxSockets
NoSocket == 0

VARIABLES
  cfg,            \* constructor options (immutable after construction)
  token,          \* this.token
  closing,        \* this._closing
  socket,         \* this.socket: NoSocket (null) or the current transport
  rs,             \* readyState of every transport constructed so far
  queue,          \* this.queue
  retries,        \* this.retries
  pingTimer,      \* this._pingTimer: NoTimer or time left to the next tick
  pongTimer,      \* this._pongTimer: NoTimer or time left to the timeout
  reconnectTimer, \* this._reconnectTimer: NoTimer or the delay it was armed with
  inflight,       \* _connect() calls suspended at "await this._buildUrl()"
  micro,          \* the constructor's _connect() resumes in this very task
  hidden,         \* document.hidden
  online,         \* navigator.onLine, as the online/offline events report it
  nextMsg,        \* id of the next payload passed to send()
  sent,           \* history: what was handed to transports, in order
  subscribers,    \* this.subscribers
  lastDispatch,   \* history: the last inbound frame and the handlers invoked
  closeCalled,    \* history: close() has been called
  sinceOpen,      \* history: a transport opened and no retry was scheduled since
  pingAt,         \* history: socket and retry counter at the last ping sent
  forced,         \* history: transport force-closed by the pong timeout
  url,            \* the token parameter of the URL of the latest new WebSocket(url)
  strays,         \* pending reconnect timers _reconnectTimer no longer refers to
  join            \* a joinUrl(base, path) call: its arguments and its result

vars == <<cfg, token, closing, socket, rs, queue, retries, pingTimer, pongTimer,
          reconnectTimer, inflight, micro, hidden, online, nextMsg, sent,
          subscribers, lastDispatch, closeCalled, sinceOpen, pingAt, forced,
          url, strays, join>>

\* ------------------------------------------------------------ pure helpers
Min(a, b) == IF a <= b THEN a ELSE b

RECURSIVE Pow2(_)
Pow2(n) == IF n = 0 THEN 1 ELSE 2 * Pow2(n - 1)

\* const base = Math.min(300 * (2 ** this.retries), this.maxBackoff)
BackoffBaseNoCap(r, maxBackoff) == BaseUnit * Pow2(r)
BackoffBase(r, maxBackoff) == Min(BaseUnit * Pow2(r), maxBackoff)

\* Math.floor(Math.random() * base), with Math.random() = k / RandDen
Jitter(k, base) == (k * base) \div RandDen

\* typeof payload === "string" ? payload : JSON.stringify(payload)
Encode(p) == [id |-> p.id, text |-> IF p.isString THEN "raw" ELSE "json"]

\* Array.prototype.shift: removes the first element, a no-op on []
Shift(q) == IF q = <<>> THEN q ELSE Tail(q)

\* ------------------------------------------------------------ URL strings
\* strings are sequences of characters
HTTP  == <<"h", "t", "t", "p", ":", "/", "/">>
HTTPS == <<"h", "t", "t", "p", "s", ":", "/", "/">>
WS    == <<"w", "s", ":", "/", "/">>
WSS   == <<"w", "s", "s", ":", "/", "/">>

\* String.prototype.startsWith and slice(n)
StartsWith(s, pre) == Len(s) >= Len(pre) /\ SubSeq(s, 1, Len(pre)) = pre
Slice(s, n) == SubSeq(s, n + 1, Len(s))

\* String.prototype.trim, on strings whose only white space is " "
RECURSIVE TrimStart(_)
TrimStart(s) == IF s # <<>> /\ Head(s) = " " THEN TrimStart(Tail(s)) ELSE s
RECURSIVE TrimEnd(_)
TrimEnd(s) ==
  IF s # <<>> /\ s[Len(s)] = " " THEN TrimEnd(SubSeq(s, 1, Len(s) - 1)) ELSE s
Trim(s) == TrimEnd(TrimStart(s))

\* replace(/\/+$/, ""): every trailing "/" goes; the variant drops a single one
StripOneSlash(s) ==
  IF s # <<>> /\ s[Len(s)] = "/" THEN SubSeq(s, 1, Len(s) - 1) ELSE s
RECURSIVE StripSlashes(_)
StripSlashes(s) ==
  IF s # <<>> /\ s[Len(s)] = "/" THEN StripSlashes(SubSeq(s, 1, Len(s) - 1)) ELSE s

\* normalizeBase (lines 10-16)
NormalizeBase(base) ==
  IF base = <<>> THEN <<>>
  ELSE LET b0 == StripSlashes(Trim(base))
           b1 == IF StartsWith(b0, HTTP) THEN WS \o Slice(b0, Len(HTTP)) ELSE b0
           b2 == IF StartsWith(b1, HTTPS) THEN WSS \o Slice(b1, Len(HTTPS)) ELSE b1
       IN b2

\* joinUrl (lines 19-23)
JoinUrl(base, path) ==
  LET b == NormalizeBase(base)
      p == IF path # <<>>
             THEN (IF StartsWith(path, <<"/">>) THEN path ELSE <<"/">> \o path)
             ELSE <<>>
  IN b \o p

\* the arguments of the model: a base is white space, a scheme, a host with or
\* without a port, trailing slashes and white space; a path is a segment or two,
\* with or without a leading slash
Schemes == {HTTP, HTTPS, WS, WSS}
Hosts == {<<"a">>, <<"a", ":", "8">>}
Segments == {<<"w">>, <<"w", "/", "x">>}
RECURSIVE Repeat(_, _)
Repeat(c, n) == IF n = 0 THEN <<>> ELSE <<c>> \o Repeat(c, n - 1)

JoinInputs ==
  [scheme : Schemes, host : Hosts, slashes : 0..MaxSlashes, padded : BOOLEAN,
   leading : BOOLEAN, segment : Segments, out : {<<>>}]
NoJoin ==
  [scheme |-> WS, host |-> <<"a">>, slashes |-> 0, padded |-> FALSE,
   leading |-> TRUE, segment |-> <<"w">>, out |-> <<>>]

\* the base and the path a call is made with
BaseOf(j) ==
  Repeat(" ", IF j.padded THEN 1 ELSE 0) \o j.scheme \o j.host
    \o Repeat("/", j.slashes) \o Repeat(" ", IF j.padded THEN 1 ELSE 0)
PathOf(j) == (IF j.leading THEN <<"/">> ELSE <<>>) \o j.segment

\* ---------------------------------------------------------- configuration
Bases == {"", "malformed", "valid"}
BackoffCaps == {0, 500, 15000}
\* the owner's n-th payload: strings and objects alternate
Payloads(n) == {[id |-> n, isString |-> (n % 2 = 1)]}
Tokens == {"undefined", "", "tok"}
HasToken(t) == t \notin {"undefined", ""}

Configs ==
  [base : Bases, tokenProvider : BOOLEAN, pingInterval : 0..MaxInterval,
   pongTimeout : 0..MaxInterval, maxBackoff : BackoffCaps,
   queueMax : 0..MaxQueueMax, autoJson : BOOLEAN, onStatus : {"none", "sends"},
   token : Tokens]

\* the constructor's defaults, in time units of the model
DefaultCfg ==
  [base |-> "valid", tokenProvider |-> FALSE, pingInterval |-> 2,
   pongTimeout |-> 1, maxBackoff |-> 15000, queueMax |-> 2, autoJson |-> TRUE,
   onStatus |-> "none", token |-> "undefined"]

\* the options that differ from the defaults
DiffFields(c) == {f \in DOMAIN c : c[f] # DefaultCfg[f]}

\* the configurations that differ from the defaults in at most one option, among F
Variants(F) ==
  {c \in Configs : DiffFields(c) \subseteq F /\ Cardinality(DiffFields(c)) <= 1}

\* _buildUrl suspends on the provider only when no static token is stored
AwaitsProviderAlways(tk) == cfg.tokenProvider
AwaitsProvider(tk) == ~HasToken(tk) /\ cfg.tokenProvider

\* what "await this.tokenProvider()" leaves in tk: a token, or nothing when the
\* provider rejects, throws or yields an empty value
ProviderResults == {"undefined", "a&b"}

\* encodeURIComponent on the tokens of the model: "&" is escaped
EncodeURIComponent(tk) == IF tk = "a&b" THEN "a%26b" ELSE tk

\* the token parameter of the URL _buildUrl returns for tk (lines 104-106)
UrlTokenDropped(tk) == "none"
UrlToken(tk) == IF HasToken(tk) THEN EncodeURIComponent(tk) ELSE "none"

NoDispatch ==
  [frame |-> "none", data |-> "none", to |-> <<>>, threw |-> {}, pong |-> FALSE]
NoPing == [sock |-> NoSocket, retries |-> 0]

\* constructor (lines 40-92): fields, then _connect() and the listeners
InitFields(C, T) ==
  /\ cfg \in C
  /\ token = cfg.token
  /\ token \in T
  /\ closing = FALSE
  /\ socket = NoSocket
  /\ rs = [s \in Sockets |-> "none"]
  /\ queue = <<>>
  /\ retries = 0
  /\ pingTimer = NoTimer
  /\ pongTimer = NoTimer
  /\ reconnectTimer = NoTimer
  /\ inflight = IF cfg.base = "" THEN 0 ELSE 1
  /\ micro = (cfg.base # "" /\ ~(~HasToken(token) /\ cfg.tokenProvider))
  /\ hidden = FALSE
  /\ online = TRUE
  /\ nextMsg = 1
  /\ sent = <<>>
  /\ subscribers = <<>>
  /\ lastDispatch = NoDispatch
  /\ closeCalled = FALSE
  /\ sinceOpen = FALSE
  /\ pingAt = NoPing
  /\ forced = NoPing
  /\ url = "none"
  /\ strays = 0

\* the client's own state: no joinUrl call is observed
InitWith(C, T) == InitFields(C, T) /\ join = NoJoin

\* ------------------------------------------------------- transport facts
Created == Cardinality({s \in Sockets : rs[s] # "none"})
Live(r) == {s \in Sockets : r[s] \in {"CONNECTING", "OPEN"}}

\* WebSocket.close(): CONNECTING/OPEN become CLOSING, the close event comes later
CloseTransport(r, s) ==
  [r EXCEPT ![s] = IF @ \in {"CONNECTING", "OPEN"} THEN "CLOSING" ELSE @]

\* this.socket && this.socket.readyState === WebSocket.OPEN, against readyStates r
IsOpenAnySocket(r) == socket # NoSocket
IsOpen(r) == socket # NoSocket /\ r[socket] = "OPEN"

\* ------------------------------------------------------ private methods
\* _stopHeartbeat (lines 225-231)
StopHeartbeat ==
  /\ pingTimer' = NoTimer
  /\ pongTimer' = NoTimer

\* _startHeartbeat (lines 193-206): stop, then setInterval unless pingInterval is 0
StartHeartbeat ==
  /\ pingTimer' = IF cfg.pingInterval = 0 THEN NoTimer ELSE cfg.pingInterval
  /\ pongTimer' = NoTimer

\* _armPongTimeout (lines 208-216): the value of _pongTimer after it
ArmedPongTimer == IF cfg.pongTimeout = 0 THEN NoTimer ELSE cfg.pongTimeout

\* clearTimeout(this._reconnectTimer) before each setTimeout (lines 181, 188): the
\* timer the handle refers to is cancelled, so no pending timer is left behind
StraysAfterArm == strays

\* _scheduleReconnect (lines 174-183)
ScheduleReconnectNoTimer ==
  /\ retries < MaxRetries
  /\ reconnectTimer' = NoTimer
  /\ strays' = strays
  /\ retries' = retries + 1
  /\ sinceOpen' = FALSE
ScheduleReconnect ==
  /\ retries < MaxRetries
  /\ \E k \in 0..(RandDen - 1) :
       reconnectTimer' = Jitter(k, BackoffBase(retries, cfg.maxBackoff))
  /\ strays' = StraysAfterArm
  /\ retries' = retries + 1
  /\ sinceOpen' = FALSE

\* _maybeReconnectSoon (lines 185-191)
MaybeReconnectSoonKeepsBackoff ==
  /\ reconnectTimer' = IF ~closing /\ ~IsOpen(rs) /\ reconnectTimer = NoTimer
                          THEN SoonDelay ELSE reconnectTimer
  /\ strays' = strays
MaybeReconnectSoon ==
  IF ~closing /\ ~IsOpen(rs)
    THEN /\ reconnectTimer' = SoonDelay
         /\ strays' = StraysAfterArm
    ELSE UNCHANGED <<reconnectTimer, strays>>

\* _connect without the try/catch around new WebSocket(url): nothing is scheduled
ConnectResumeUncaught(timerNow, tk) ==
  /\ closing' = FALSE
  /\ IF cfg.base = "malformed"
       THEN UNCHANGED <<socket, rs, url, reconnectTimer, retries, sinceOpen, strays>>
       ELSE /\ Created < MaxSockets
            /\ socket' = Created + 1
            /\ rs' = [rs EXCEPT ![Created + 1] = "CONNECTING"]
            /\ url' = UrlToken(tk)
            /\ reconnectTimer' = timerNow
            /\ UNCHANGED <<retries, sinceOpen, strays>>

\* _connect treating a _buildUrl that ends without a token as a failed attempt
ConnectResumeNeedsToken(timerNow, tk) ==
  /\ closing' = FALSE
  /\ IF cfg.base = "malformed" \/ ~HasToken(tk)
       THEN /\ ScheduleReconnect
            /\ UNCHANGED <<socket, rs, url>>
       ELSE /\ Created < MaxSockets
            /\ socket' = Created + 1
            /\ rs' = [rs EXCEPT ![Created + 1] = "CONNECTING"]
            /\ url' = UrlToken(tk)
            /\ reconnectTimer' = timerNow
            /\ UNCHANGED <<retries, sinceOpen, strays>>

\* _connect after "await this._buildUrl()" (lines 113-171); timerNow is the value of
\* _reconnectTimer when it resumes and tk the token _buildUrl ended with
ConnectResume(timerNow, tk) ==
  /\ closing' = FALSE
  /\ IF cfg.base = "malformed"
       THEN /\ ScheduleReconnect
            /\ UNCHANGED <<socket, rs, url>>
       ELSE /\ Created < MaxSockets
            /\ socket' = Created + 1
            /\ rs' = [rs EXCEPT ![Created + 1] = "CONNECTING"]
            /\ url' = UrlToken(tk)
            /\ reconnectTimer' = timerNow
            /\ UNCHANGED <<retries, sinceOpen, strays>>

\* send (lines 236-247) as a function of the state it runs in: the queue and the
\* transport log after send(p), with readyStates r, queue q and log l
QueueAfterSendAlways(r, q, p) ==
  Append(IF Len(q) >= cfg.queueMax THEN Shift(q) ELSE q, Encode(p))
QueueAfterSend(r, q, p) ==
  IF IsOpen(r) THEN q
  ELSE Append(IF Len(q) >= cfg.queueMax THEN Shift(q) ELSE q, Encode(p))
SentAfterSend(r, l, p) ==
  IF IsOpen(r) THEN Append(l, [sock |-> socket, data |-> Encode(p)]) ELSE l

\* the drain loop of onopen (lines 129-131), with readyStates r, queue q and log l
RECURSIVE Drained(_, _)
Drained(l, q) ==
  IF q = <<>> THEN l
  ELSE Drained(Append(l, [sock |-> socket, data |-> Head(q)]), Tail(q))
QueueAfterDrainAlways(r, q) == <<>>
QueueAfterDrainNever(r, q) == q
QueueAfterDrain(r, q) == IF IsOpen(r) THEN <<>> ELSE q
SentAfterDrain(r, l, q) == IF IsOpen(r) THEN Drained(l, q) ELSE l

\* --------------------------------------------------------------- actions
\* a suspended _connect() resumes: the microtask after the constructor, or the
\* token provider settling
ConnectResumes ==
  /\ inflight > 0
  /\ inflight' = inflight - 1
  /\ micro' = FALSE
  /\ IF micro
       THEN ConnectResume(reconnectTimer, cfg.token)
       ELSE \E tk \in ProviderResults : ConnectResume(reconnectTimer, tk)
  /\ UNCHANGED <<cfg, join, token, queue, pingTimer, pongTimer, hidden, online, nextMsg,
                 sent, subscribers, lastDispatch, closeCalled, pingAt, forced>>

\* the reconnect timer fires: () => this._connect()
ReconnectTimerFires ==
  /\ ~micro
  /\ reconnectTimer # NoTimer
  /\ IF cfg.base = ""
       THEN /\ reconnectTimer' = NoTimer
            /\ UNCHANGED <<closing, socket, rs, retries, sinceOpen, inflight,
                           url, strays>>
       ELSE IF AwaitsProvider(token)
         THEN /\ inflight < MaxInflight
              /\ inflight' = inflight + 1
              /\ reconnectTimer' = NoTimer
              /\ UNCHANGED <<closing, socket, rs, retries, sinceOpen, url, strays>>
         ELSE /\ ConnectResume(NoTimer, token)
              /\ UNCHANGED inflight
  /\ UNCHANGED <<cfg, join, token, queue, pingTimer, pongTimer, micro, hidden, online,
                 nextMsg, sent, subscribers, lastDispatch, closeCalled, pingAt, forced>>

\* this.retries = 0 (line 126)
RetriesKeptAfterOpen == retries
RetriesAfterOpen == 0

\* socket.onopen (lines 124-133); with cfg.onStatus = "sends" the owner's
\* onStatus("open") observer calls send() while it has payloads left
SockOpen(s) ==
  /\ ~micro
  /\ rs[s] = "CONNECTING"
  /\ rs' = [rs EXCEPT ![s] = "OPEN"]
  /\ retries' = RetriesAfterOpen
  /\ sinceOpen' = TRUE
  /\ IF cfg.onStatus = "sends" /\ nextMsg <= MaxSends
       THEN /\ \E p \in Payloads(nextMsg) :
                 LET q1 == QueueAfterSend(rs', queue, p)
                     l1 == SentAfterSend(rs', sent, p)
                 IN /\ queue' = QueueAfterDrain(rs', q1)
                    /\ sent' = SentAfterDrain(rs', l1, q1)
            /\ nextMsg' = nextMsg + 1
       ELSE /\ queue' = QueueAfterDrain(rs', queue)
            /\ sent' = SentAfterDrain(rs', sent, queue)
            /\ UNCHANGED nextMsg
  /\ StartHeartbeat
  /\ UNCHANGED <<cfg, join, token, closing, socket, reconnectTimer, inflight, micro, hidden,
                 online, subscribers, lastDispatch, closeCalled, pingAt, forced,
                 url, strays>>

\* socket.onerror / socket.onclose (lines 158-171): the transport reaches CLOSED
SockClosed(s) ==
  /\ ~micro
  /\ rs[s] \in {"CONNECTING", "OPEN", "CLOSING"}
  /\ rs' = [rs EXCEPT ![s] = "CLOSED"]
  /\ StopHeartbeat
  /\ IF closing
       THEN UNCHANGED <<retries, reconnectTimer, sinceOpen, strays>>
       ELSE ScheduleReconnect
  /\ forced' = IF forced.sock = s THEN NoPing ELSE forced
  /\ UNCHANGED <<cfg, join, token, closing, socket, queue, inflight, micro, hidden, online,
                 nextMsg, sent, subscribers, lastDispatch, closeCalled, pingAt, url>>

\* the setInterval callback of _startHeartbeat (lines 196-205).  A pong timeout due
\* at the same instant was set during the previous tick, before the interval was
\* re-armed, and timers due together run in the order they were set: it runs first.
PingTick ==
  /\ pingTimer = 0
  /\ pongTimer # 0
  /\ pingTimer' = cfg.pingInterval
  /\ IF IsOpen(rs)
       THEN /\ pongTimer' = ArmedPongTimer
            /\ pingAt' = [sock |-> socket, retries |-> retries]
       ELSE UNCHANGED <<pongTimer, pingAt>>
  /\ UNCHANGED <<cfg, join, token, closing, socket, rs, queue, retries, reconnectTimer,
                 inflight, micro, hidden, online, nextMsg, sent, subscribers,
                 lastDispatch, closeCalled, sinceOpen, forced,
                 url, strays>>

\* the setTimeout callback of _armPongTimeout (lines 211-215): this.socket?.close()
PongTimeout ==
  /\ pongTimer = 0
  /\ pongTimer' = NoTimer
  /\ IF socket # NoSocket /\ rs[socket] \in {"CONNECTING", "OPEN"}
       THEN /\ rs' = CloseTransport(rs, socket)
            /\ forced' = [sock |-> socket, retries |-> pingAt.retries]
       ELSE UNCHANGED <<rs, forced>>
  /\ UNCHANGED <<cfg, join, token, closing, socket, queue, retries, pingTimer,
                 reconnectTimer, inflight, micro, hidden, online, nextMsg, sent,
                 subscribers, lastDispatch, closeCalled, sinceOpen, pingAt,
                 url, strays>>

\* one time unit passes; a timer that is due fires before time moves on
Tick ==
  /\ pingTimer # 0
  /\ pongTimer # 0
  /\ pingTimer > 0 \/ pongTimer > 0
  /\ pingTimer' = IF pingTimer > 0 THEN pingTimer - 1 ELSE pingTimer
  /\ pongTimer' = IF pongTimer > 0 THEN pongTimer - 1 ELSE pongTimer
  /\ UNCHANGED <<cfg, join, token, closing, socket, rs, queue, retries, reconnectTimer,
                 inflight, micro, hidden, online, nextMsg, sent, subscribers,
                 lastDispatch, closeCalled, sinceOpen, pingAt, forced,
                 url, strays>>

\* ----------------------------------------------------------- inbound frames
\* evt.data of the frames the server may send: text that is no JSON, JSON objects
\* and a JSON string
Frames == {"pong", "hello", "{\"type\":\"pong\"}", "{\"type\":\"update\"}", "\"pong\""}

\* JSON.parse(raw): the value, or "throws" (kept as a string by the caller)
JsonParse(raw) ==
  CASE raw = "{\"type\":\"pong\"}"   -> [kind |-> "object", value |-> "pong"]
    [] raw = "{\"type\":\"update\"}" -> [kind |-> "object", value |-> "update"]
    [] raw = "\"pong\""              -> [kind |-> "string", value |-> "pong"]
    [] OTHER                         -> [kind |-> "throws", value |-> raw]

\* payload of onmessage (lines 141-145); an object is kept by its type field
DecodeFrame(raw) ==
  IF cfg.autoJson /\ JsonParse(raw).kind # "throws"
    THEN JsonParse(raw)
    ELSE [kind |-> "string", value |-> raw]

\* isPong (line 147)
IsPong(payload) ==
  \/ payload.kind = "object" /\ payload.value = "pong"
  \/ payload.kind = "string" /\ payload.value = "pong"

\* dataToSend (line 151)
DataToSend(raw) == IF cfg.autoJson THEN DecodeFrame(raw) ELSE [kind |-> "string", value |-> raw]

\* the handlers invoked for a frame (line 152): every current subscriber
DispatchTargets(raw) == subscribers

Handlers == {"h1", "h2"}

\* the elements of a sequence
Range(f) == {f[i] : i \in DOMAIN f}

\* this.subscribers.forEach((h) => { try { h(dataToSend) } catch (e) { ... } })
\* (lines 152-154): the handlers invoked, in the insertion order of the Set, when
\* the handlers in T throw; a throw is caught inside the iteration's callback
RECURSIVE InvokedUntilThrow(_, _)
InvokedUntilThrow(subs, T) ==
  IF subs = <<>> THEN <<>>
  ELSE IF Head(subs) \in T THEN <<Head(subs)>>
  ELSE <<Head(subs)>> \o InvokedUntilThrow(Tail(subs), T)
RECURSIVE Invoked(_, _)
Invoked(subs, T) ==
  IF subs = <<>> THEN <<>>
  ELSE <<Head(subs)>> \o Invoked(Tail(subs), T)

\* socket.onmessage (lines 135-156); T: the handlers that throw on this frame
SockMessage(s, raw, T) ==
  /\ ~micro
  /\ rs[s] = "OPEN"
  /\ pongTimer' = IF IsPong(DecodeFrame(raw)) THEN NoTimer ELSE pongTimer
  /\ lastDispatch' =
       LET to == Invoked(DispatchTargets(raw), T)
       IN [frame |-> raw, data |-> DataToSend(raw), to |-> to,
           threw |-> Range(to) \cap T, pong |-> IsPong(DecodeFrame(raw))]
  /\ UNCHANGED <<cfg, join, token, closing, socket, rs, queue, retries, pingTimer,
                 reconnectTimer, inflight, micro, hidden, online, nextMsg, sent,
                 subscribers, closeCalled, sinceOpen, pingAt, forced,
                 url, strays>>

\* ------------------------------------------------------------ DOM events
\* the visibilitychange listener (lines 83-86); registered only with a base
VisibilityChange ==
  /\ ~micro
  /\ cfg.base # ""
  /\ hidden' = ~hidden
  /\ IF hidden' THEN StopHeartbeat ELSE StartHeartbeat
  /\ UNCHANGED <<cfg, join, token, closing, socket, rs, queue, retries, reconnectTimer,
                 inflight, micro, online, nextMsg, sent, subscribers, lastDispatch,
                 closeCalled, sinceOpen, pingAt, forced,
                 url, strays>>

\* the online listener (line 89)
Online ==
  /\ ~micro
  /\ cfg.base # ""
  /\ ~online
  /\ online' = TRUE
  /\ MaybeReconnectSoon
  /\ UNCHANGED <<cfg, join, token, closing, socket, rs, queue, retries, pingTimer,
                 pongTimer, inflight, micro, hidden, nextMsg, sent, subscribers,
                 lastDispatch, closeCalled, sinceOpen, pingAt, forced, url>>

\* the offline listener (line 90)
Offline ==
  /\ ~micro
  /\ cfg.base # ""
  /\ online
  /\ online' = FALSE
  /\ StopHeartbeat
  /\ UNCHANGED <<cfg, join, token, closing, socket, rs, queue, retries, reconnectTimer,
                 inflight, micro, hidden, nextMsg, sent, subscribers, lastDispatch,
                 closeCalled, sinceOpen, pingAt, forced,
                 url, strays>>

\* ---------------------------------------------------------- public methods
\* send(payload) (lines 236-247)
Send ==
  /\ nextMsg <= MaxSends
  /\ \E p \in Payloads(nextMsg) :
       /\ queue' = QueueAfterSend(rs, queue, p)
       /\ sent' = SentAfterSend(rs, sent, p)
  /\ nextMsg' = nextMsg + 1
  /\ UNCHANGED <<cfg, join, token, closing, socket, rs, retries, pingTimer, pongTimer,
                 reconnectTimer, inflight, micro, hidden, online, subscribers,
                 lastDispatch, closeCalled, sinceOpen, pingAt, forced,
                 url, strays>>

\* this.token = nextToken ?? this.token (line 253)
TokenAfterUpdate(next) == IF next = "undefined" THEN token ELSE next

\* updateToken(nextToken) (lines 252-260)
UpdateToken(next) ==
  /\ token' = TokenAfterUpdate(next)
  /\ IF IsOpen(rs)
       THEN /\ rs' = CloseTransport(rs, socket)
            /\ UNCHANGED <<reconnectTimer, strays>>
       ELSE /\ MaybeReconnectSoon
            /\ UNCHANGED rs
  /\ UNCHANGED <<cfg, join, closing, socket, queue, retries, pingTimer, pongTimer, inflight,
                 micro, hidden, online, nextMsg, sent, subscribers, lastDispatch,
                 closeCalled, sinceOpen, pingAt, forced, url>>

\* the fields close() reads or writes, and the number of socket.close() calls it
\* has issued
CloseFields ==
  [closing |-> closing, socket |-> socket, rs |-> rs, pingTimer |-> pingTimer,
   pongTimer |-> pongTimer, reconnectTimer |-> reconnectTimer, queue |-> queue,
   subscribers |-> subscribers, retries |-> retries, closes |-> 0]

\* close() (lines 271-279) as a function of those fields
AfterCloseKeepsSocket(st) ==
  LET touches == st.socket # NoSocket /\ st.rs[st.socket] # "CLOSED"
  IN [st EXCEPT !.closing = TRUE,
                !.pingTimer = NoTimer,
                !.pongTimer = NoTimer,
                !.reconnectTimer = NoTimer,
                !.rs = IF touches THEN CloseTransport(st.rs, st.socket) ELSE st.rs,
                !.closes = IF touches THEN @ + 1 ELSE @]
AfterClose(st) ==
  LET touches == st.socket # NoSocket /\ st.rs[st.socket] # "CLOSED"
  IN [st EXCEPT !.closing = TRUE,
                !.pingTimer = NoTimer,
                !.pongTimer = NoTimer,
                !.reconnectTimer = NoTimer,
                !.rs = IF touches THEN CloseTransport(st.rs, st.socket) ELSE st.rs,
                !.closes = IF touches THEN @ + 1 ELSE @,
                !.socket = NoSocket]

\* close() (lines 271-279)
Close ==
  /\ closing' = AfterClose(CloseFields).closing
  /\ pingTimer' = AfterClose(CloseFields).pingTimer
  /\ pongTimer' = AfterClose(CloseFields).pongTimer
  /\ reconnectTimer' = AfterClose(CloseFields).reconnectTimer
  /\ rs' = AfterClose(CloseFields).rs
  /\ socket' = AfterClose(CloseFields).socket
  /\ closeCalled' = TRUE
  /\ UNCHANGED <<cfg, join, token, queue, retries, inflight, micro, hidden, online, nextMsg,
                 sent, subscribers, lastDispatch, sinceOpen, pingAt, forced,
                 url, strays>>

\* Set.prototype.add (line 263): a handler already in the Set keeps its place;
\* the variant is Array.prototype.push
SubscribedAgain(subs, h) == Append(subs, h)
Subscribed(subs, h) == IF h \in Range(subs) THEN subs ELSE Append(subs, h)

\* Set.prototype.delete (line 267), which is also all the function returned by
\* onMessage does (line 264)
Unsubscribed(subs, h) == SelectSeq(subs, LAMBDA x : x # h)

\* onMessage(handler) (lines 262-265)
OnMessage(h) ==
  /\ subscribers' = Subscribed(subscribers, h)
  /\ UNCHANGED <<cfg, join, token, closing, socket, rs, queue, retries, pingTimer,
                 pongTimer, reconnectTimer, inflight, micro, hidden, online, nextMsg,
                 sent, lastDispatch, closeCalled, sinceOpen, pingAt, forced,
                 url, strays>>

\* offMessage(handler) (lines 266-268)
OffMessage(h) ==
  /\ subscribers' = Unsubscribed(subscribers, h)
  /\ UNCHANGED <<cfg, join, token, closing, socket, rs, queue, retries, pingTimer,
                 pongTimer, reconnectTimer, inflight, micro, hidden, online, nextMsg,
                 sent, lastDispatch, closeCalled, sinceOpen, pingAt, forced,
                 url, strays>>

\* --------------------------------------------------------- specifications
\* the connection manager: connects, transport open/close, reconnect timer,
\* network events, token rotation, close()
NextConn ==
  \/ ConnectResumes
  \/ ReconnectTimerFires
  \/ \E s \in Sockets : SockOpen(s)
  \/ \E s \in Sockets : SockClosed(s)
  \/ Online
  \/ Offline
  \/ \E next \in Tokens : UpdateToken(next)
  \/ Close

\* the liveness monitor: time, the ping interval, the pong timeout, tab visibility
NextHeartbeat ==
  \/ PingTick
  \/ PongTimeout
  \/ Tick
  \/ VisibilityChange

\* the subscriber registry and inbound frames
NextRegistry ==
  \/ \E s \in Sockets, raw \in Frames, T \in SUBSET Handlers : SockMessage(s, raw, T)
  \/ \E h \in Handlers : OnMessage(h)
  \/ \E h \in Handlers : OffMessage(h)

\* Spec: the connection manager and the outbound buffer, over every base, token
\* provider, queueMax and onStatus observer
Init == InitWith(Variants({"base", "tokenProvider", "queueMax", "onStatus"}), {"undefined"})
Next == NextConn \/ Send
Spec == Init /\ [][Next]_vars

\* SpecSend: the outbound buffer on transports that connect, open, drop, are
\* rotated by updateToken() and closed by close(), over every base, queueMax and
\* onStatus observer
InitSend == InitWith(Variants({"base", "queueMax", "onStatus"}), {"undefined"})
NextSend ==
  \/ ConnectResumes
  \/ ReconnectTimerFires
  \/ \E s \in Sockets : SockOpen(s)
  \/ \E s \in Sockets : SockClosed(s)
  \/ \E next \in Tokens : UpdateToken(next)
  \/ Close
  \/ Send
SpecSend == InitSend /\ [][NextSend]_vars

\* SpecBackoff: the connection manager alone, over every base, token provider and
\* maxBackoff
InitBackoff == InitWith(Variants({"base", "tokenProvider", "maxBackoff"}), {"undefined"})
SpecBackoff == InitBackoff /\ [][NextConn]_vars

\* SpecHeartbeat: the connection manager and the liveness monitor, over every
\* positive pingInterval and pongTimeout; the server may acknowledge with "pong".
\* Time passes and a timer that is due fires (the event loop runs due timers).
HeartbeatConfigs ==
  {c \in Configs : /\ DiffFields(c) \subseteq {"pingInterval", "pongTimeout"}
                   /\ c.pingInterval >= 1
                   /\ c.pongTimeout >= 1}
InitHeartbeat == InitWith(HeartbeatConfigs, {"undefined"})
NextHB ==
  \/ NextConn
  \/ NextHeartbeat
  \/ \E s \in Sockets : SockMessage(s, "pong", {})
SpecHeartbeat ==
  /\ InitHeartbeat
  /\ [][NextHB]_vars
  /\ WF_vars(Tick)
  /\ WF_vars(PingTick)
  /\ WF_vars(PongTimeout)
  /\ WF_vars(ReconnectTimerFires)

\* SpecRegistry: inbound frames and the subscriber registry on transports that
\* connect, open, drop and are pinged, with and without autoJson
InitRegistry == InitWith(Variants({"autoJson"}), {"undefined"})
NextReg ==
  \/ ConnectResumes
  \/ ReconnectTimerFires
  \/ \E s \in Sockets : SockOpen(s)
  \/ \E s \in Sockets : SockClosed(s)
  \/ PingTick
  \/ PongTimeout
  \/ Tick
  \/ NextRegistry
SpecRegistry == InitRegistry /\ [][NextReg]_vars

\* the close event of a transport that is CLOSING: the browser delivers it once
\* the closing handshake ends or times out
ClosingEnds(s) == rs[s] = "CLOSING" /\ SockClosed(s)

\* SpecToken: token rotation on transports that connect, open and drop, with and
\* without a token provider and a constructor token.  A timer that is due fires,
\* and a transport that is CLOSING reaches CLOSED.
InitToken == InitWith(Variants({"tokenProvider", "token"}), Tokens)
NextToken ==
  \/ ConnectResumes
  \/ ReconnectTimerFires
  \/ \E s \in Sockets : SockOpen(s)
  \/ \E s \in Sockets : SockClosed(s)
  \/ \E next \in Tokens : UpdateToken(next)
  \/ Close
SpecToken ==
  /\ InitToken
  /\ [][NextToken]_vars
  /\ WF_vars(ReconnectTimerFires)
  /\ \A s \in Sockets : WF_vars(ClosingEnds(s))

\* SpecLifecycle: the connection manager and the liveness monitor with the
\* default options, over every base
InitLifecycle == InitWith(Variants({"base"}), {"undefined"})
NextLifecycle == NextConn \/ NextHeartbeat
SpecLifecycle == InitLifecycle /\ [][NextLifecycle]_vars

\* SpecSoon: the connection manager and the outbound buffer with the default
\* options and with no base
InitSoon == InitWith({c \in Variants({"base"}) : c.base # "malformed"}, {"undefined"})
SpecSoon == InitSoon /\ [][Next]_vars

\* SpecMalformed: a client whose connect target makes new WebSocket(url) throw,
\* with and without a token provider, while its owner sends, subscribes, rotates
\* the token and closes
MalformedConfigs ==
  {c \in Configs : c.base = "malformed" /\ DiffFields(c) \subseteq {"base", "tokenProvider"}}
InitMalformed == InitWith(MalformedConfigs, {"undefined"})
NextMalformed ==
  \/ ConnectResumes
  \/ ReconnectTimerFires
  \/ \E next \in Tokens : UpdateToken(next)
  \/ Close
  \/ Send
  \/ \E h \in Handlers : OnMessage(h)
  \/ \E h \in Handlers : OffMessage(h)
SpecMalformed == InitMalformed /\ [][NextMalformed]_vars

\* a call of joinUrl(base, path)
JoinUrlCall ==
  /\ join.out = <<>>
  /\ join' = [join EXCEPT !.out = JoinUrl(BaseOf(join), PathOf(join))]
  /\ UNCHANGED <<cfg, token, closing, socket, rs, queue, retries, pingTimer,
                 pongTimer, reconnectTimer, inflight, micro, hidden, online, nextMsg,
                 sent, subscribers, lastDispatch, closeCalled, sinceOpen, pingAt,
                 forced, url, strays>>

\* SpecJoin: joinUrl applied to every base and path of the model
InitJoin == InitFields({DefaultCfg}, {"undefined"}) /\ join \in JoinInputs
SpecJoin == InitJoin /\ [][JoinUrlCall]_vars

\* ------------------------------------------------------------------ claims
\* C1: close() is terminal: once close() has been called no new transport is
\* created and no reconnect timer is armed, whatever happens afterwards.
C1_CloseIsTerminal ==
  [][closeCalled => (Created' = Created /\ reconnectTimer' = NoTimer)]_vars

\* C2: in every reachable state at most one transport constructed by the client is
\* CONNECTING or OPEN.
C2_AtMostOneLive == Cardinality(Live(rs)) <= 1

\* a step that is one send() call: a payload is consumed and no transport changes
SendStep == nextMsg' = nextMsg + 1 /\ rs' = rs
SentPayload == CHOOSE p \in Payloads(nextMsg) : TRUE

\* C3: send() with the current transport not OPEN appends the encoded payload to
\* the queue and hands nothing to the transport; with the transport OPEN it hands
\* the payload to the transport and leaves the queue unchanged.
C3_SendRoutes ==
  [][SendStep =>
       IF socket # NoSocket /\ rs[socket] = "OPEN"
         THEN /\ queue' = queue
              /\ sent' = Append(sent, [sock |-> socket, data |-> Encode(SentPayload)])
         ELSE /\ sent' = sent
              /\ Len(queue') >= 1
              /\ queue'[Len(queue')] = Encode(SentPayload)]_vars

\* C3 witness: one payload was handed to a transport and a later one was queued
\* while the current transport is closing.
C3_Witness ==
  /\ socket # NoSocket /\ rs[socket] = "CLOSING"
  /\ Len(sent) = 1 /\ sent[1].data.id = 1
  /\ Len(queue) = 1 /\ queue[1].id = 2

\* C4: the queue length never exceeds the configured queueMax.
C4_QueueBounded == Len(queue) <= cfg.queueMax

\* C5: payloads reach the transports in the order of their send() calls: what was
\* queued before an open is handed over first, in enqueue order, before any payload
\* passed to send() later (payload ids grow with the send() calls).
C5_QueuedBeforeNew ==
  \A i, j \in 1..Len(sent) : i < j => sent[i].data.id < sent[j].data.id

\* the cap of the n-th retry delay, n = r + 1
RetryCap(r) == Min(BaseUnit * (2 ^ r), cfg.maxBackoff)

\* C6: the delay of the n-th consecutive retry (retries = n-1 on entry) is an
\* integer in [0, min(300 * 2^(n-1), maxBackoff)], and _scheduleReconnect increments
\* the retry counter by exactly 1.
C6_BackoffDelay ==
  [][(retries' # retries /\ retries' # 0) =>
       /\ retries' = retries + 1
       /\ reconnectTimer' \in 0..RetryCap(retries)]_vars

\* C6 witness: the second retry was scheduled with the cap maxBackoff = 500 in
\* force (600 > 500) and a delay of half the cap.
C6_Witness == retries = 2 /\ cfg.maxBackoff = 500 /\ reconnectTimer = 250

\* a step in which a transport opens
OpenStep == \E s \in Sockets : rs[s] = "CONNECTING" /\ rs'[s] = "OPEN"

\* C7: every open resets the retry counter to 0, and the first retry scheduled
\* after an open is computed with n = 1: its delay is at most min(300, maxBackoff)
\* and the counter becomes 1.
C7_OpenResetsRetries ==
  [][/\ OpenStep => retries' = 0
     /\ (sinceOpen /\ ~sinceOpen') =>
          (retries' = 1 /\ reconnectTimer' \in 0..Min(BaseUnit, cfg.maxBackoff))]_vars

\* C7 witness: the first transport failed, the second one opened and then dropped,
\* and the retry scheduled for it is the first one again.
C7_Witness ==
  /\ rs[1] = "CLOSED" /\ rs[2] = "CLOSED" /\ socket = 2
  /\ retries = 1 /\ ~sinceOpen /\ reconnectTimer # NoTimer /\ ~closeCalled

\* C8: a ping that is never acknowledged leads to the forced close of its
\* transport: a pending pong timeout always ends (by the acknowledgment, by firing
\* or by the heartbeat being stopped), later ping ticks do not postpone it for ever.
C8_PongTimeoutEnds == (pongTimer # NoTimer) ~> (pongTimer = NoTimer)

\* a step in which the close callback of the transport the pong timeout
\* force-closed runs, close() not having been requested
ForcedCloseStep ==
  /\ forced.sock # NoSocket
  /\ rs[forced.sock] # "CLOSED"
  /\ rs'[forced.sock] = "CLOSED"
  /\ ~closing

\* C9: the close callback of a transport closed by the pong timeout schedules a
\* reconnect, and the retry counter is then exactly 1 greater than when the ping
\* was sent.
C9_RetryAfterPongTimeout ==
  [][ForcedCloseStep =>
       (reconnectTimer' # NoTimer /\ retries' = forced.retries + 1)]_vars

\* C10: a frame recognized as a liveness acknowledgment clears the pending pong
\* timeout and is passed to no subscriber handler.
C10_PongNotDispatched ==
  [][(lastDispatch' # lastDispatch /\ lastDispatch'.pong) =>
       (pongTimer' = NoTimer /\ lastDispatch'.to = <<>>)]_vars

\* C11: a handler that throws does not stop the dispatch of that frame to the
\* remaining handlers: every subscriber is invoked, in subscription order, and the
\* step changes neither the subscriber set nor any transport, and schedules no
\* reconnect.
C11_ThrowIsContained ==
  [][lastDispatch' # lastDispatch =>
       /\ lastDispatch'.to = subscribers
       /\ subscribers' = subscribers
       /\ rs' = rs /\ socket' = socket
       /\ reconnectTimer' = reconnectTimer /\ retries' = retries]_vars

\* C11 witness: the first of two handlers threw and the second was still invoked.
C11_Witness ==
  /\ lastDispatch.to = <<"h1", "h2">>
  /\ "h1" \in lastDispatch.threw
  /\ \E s \in Sockets : rs[s] = "OPEN"

\* C12: close() is idempotent: in every state, a second close() right after the
\* first leaves the closing flag, the socket handle, the timers, the queue, the
\* subscribers and the retry counter as the first call left them, and issues no
\* further socket.close().
C12_CloseIdempotent == AfterClose(AfterClose(CloseFields)) = AfterClose(CloseFields)

\* C12 witness: close() was called with a live transport and a queued payload; the
\* transport is closing and the handle is gone, so a second close() runs here.
C12_Witness ==
  /\ closeCalled /\ closing /\ socket = NoSocket
  /\ \E s \in Sockets : rs[s] = "CLOSING"
  /\ queue # <<>>
  /\ AfterClose(CloseFields).closes = 0

\* the current transport is being closed while a token t is stored
Rotating(t) == t = token /\ socket # NoSocket /\ rs[socket] = "CLOSING"

\* a transport was just constructed with the stored token in its URL
ReconnectedWithToken ==
  /\ socket # NoSocket /\ rs[socket] = "CONNECTING"
  /\ url = EncodeURIComponent(token)

\* the run cannot go on: close() was called, or a bound of the model is reached
\* (the retry counter is at its cap, or a reconnect is due and every transport of
\* the model is in use)
RotationEnds ==
  \/ closeCalled
  \/ retries = MaxRetries
  \/ Created = MaxSockets /\ reconnectTimer # NoTimer

\* a change of the stored token while the transport is OPEN closes that transport
\* and constructs no other
RotationCloses ==
  [][(socket # NoSocket /\ rs[socket] = "OPEN" /\ token' # token) =>
       (socket' = socket /\ rs'[socket] = "CLOSING" /\ Created' = Created)]_vars

C14_HiddenIsSilent ==
  /\ [](hidden => pongTimer = NoTimer)
  /\ [][hidden => pingAt' = pingAt]_vars

\* a step in which a transport reaches CLOSED
TransportCloses == \E s \in Sockets : rs[s] # "CLOSED" /\ rs'[s] = "CLOSED"

\* something will still connect, is connected or is about to report its close: a
\* transport that is not CLOSED, a pending reconnect timer or a suspended _connect()
AttemptPending ==
  \/ \E s \in Sockets : rs[s] \in {"CONNECTING", "OPEN", "CLOSING"}
  \/ reconnectTimer # NoTimer
  \/ inflight > 0

\* C15: as long as close() has not been called, every transport close (network
\* error, server close, pong timeout, forced close after updateToken) arms the
\* reconnect timer in the same step, and a client with a valid base is never left
\* with no transport, no pending reconnect timer and no connect in flight.
C15_OnlyCloseEndsRetrying ==
  /\ [][(TransportCloses /\ ~closeCalled) => reconnectTimer' # NoTimer]_vars
  /\ []((~closeCalled /\ cfg.base = "valid") => AttemptPending)

\* C15 witness: a ping was sent on the first transport, the transport then closed
\* without close() and its retry is pending.
C15_Witness ==
  /\ ~closeCalled /\ cfg.base = "valid"
  /\ socket = 1 /\ rs[1] = "CLOSED" /\ pingAt.sock = 1
  /\ reconnectTimer # NoTimer /\ retries = 1

\* a step of send(), updateToken(), the online listener or the visibility listener
OwnerStep ==
  \/ nextMsg' # nextMsg /\ rs' = rs
  \/ token' # token
  \/ online' # online
  \/ hidden' # hidden

\* C16: after close(), send(), updateToken() and the online / visibility listeners
\* leave the queue, the timers and the transports as they are.
C16_NoOpAfterClose ==
  [][(closeCalled /\ OwnerStep) =>
       UNCHANGED <<queue, pingTimer, pongTimer, reconnectTimer, rs, socket>>]_vars

\* C17: the ping interval and the pong timeout are pending only while the current
\* transport is OPEN: with no socket, or one that is CONNECTING, CLOSING or CLOSED,
\* neither is pending.
C17_HeartbeatOnlyWhileOpen ==
  (socket = NoSocket \/ rs[socket] # "OPEN") =>
    (pingTimer = NoTimer /\ pongTimer = NoTimer)

\* C18: whenever the current transport is OPEN, the page is in the foreground and
\* pingInterval is positive, the ping interval timer is pending.
C18_HeartbeatWhileOpen ==
  (socket # NoSocket /\ rs[socket] = "OPEN" /\ ~hidden /\ cfg.pingInterval > 0) =>
    pingTimer # NoTimer

\* C19: when a transport reaches OPEN no reconnect timer remains pending.
C19_OpenCancelsReconnect == [][OpenStep => reconnectTimer' = NoTimer]_vars

\* a step of updateToken() or of the online listener while the current transport
\* is not OPEN and close() has not been called
SoonStep ==
  /\ ~closeCalled
  /\ ~(socket # NoSocket /\ rs[socket] = "OPEN")
  /\ token' # token \/ (~online /\ online')

\* the reconnect timers that are pending
PendingReconnectTimers == strays + (IF reconnectTimer # NoTimer THEN 1 ELSE 0)

\* C20: updateToken() or the online event, while the transport is not OPEN and
\* close() has not been called, cancels the pending backoff timer and arms one
\* reconnect timer of 200 ms, leaving the retry counter and the queue unchanged;
\* in every reachable state at most one reconnect timer is pending.
C20_SoonReplacesBackoff ==
  /\ [][SoonStep =>
         /\ reconnectTimer' = SoonDelay
         /\ PendingReconnectTimers' = 1
         /\ retries' = retries
         /\ queue' = queue]_vars
  /\ [](PendingReconnectTimers <= 1)

\* C20 witness: a payload is queued, the first transport has failed once, and the
\* backoff timer of that retry was replaced by the 200 ms timer.
C20_Witness ==
  /\ ~closeCalled /\ socket = 1 /\ rs[1] = "CLOSED"
  /\ retries = 1 /\ reconnectTimer = SoonDelay
  /\ queue # <<>>


\* C21: a pong timeout that fires closes only the transport its ping was sent on:
\* when the socket handle was replaced or nulled since, it closes nothing.
C21_PongTimeoutClosesItsOwn ==
  [][(forced' # forced /\ forced'.sock # NoSocket) =>
       forced'.sock = pingAt.sock]_vars

\* a step in which the close event of a superseded transport runs
StaleCloseStep ==
  \E s \in Sockets : s # socket /\ rs[s] # "CLOSED" /\ rs'[s] = "CLOSED"

\* a step in which the open event of a superseded transport runs
StaleOpenStep ==
  \E s \in Sockets : s # socket /\ rs[s] = "CONNECTING" /\ rs'[s] = "OPEN"

\* C22: the callbacks of a superseded transport do not affect the current one: its
\* close event neither stops the heartbeat of the current OPEN socket nor schedules
\* a reconnect, and its open event neither resets the retry counter nor starts the
\* heartbeat.
C22_StaleCallbacksIgnored ==
  [][/\ StaleCloseStep =>
          UNCHANGED <<pingTimer, pongTimer, reconnectTimer, retries>>
     /\ StaleOpenStep =>
          UNCHANGED <<pingTimer, pongTimer, retries>>]_vars

\* C23: when new WebSocket(url) throws, the resumed _connect() schedules a retry
\* (reconnect timer armed, retry counter + 1), constructs nothing and leaves the
\* queue and the subscribers unchanged.
C23_ConstructionFailureRetries ==
  [][(cfg.base = "malformed" /\ inflight' < inflight) =>
       /\ retries' = retries + 1
       /\ reconnectTimer' # NoTimer
       /\ Created' = Created /\ socket' = socket
       /\ queue' = queue
       /\ subscribers' = subscribers]_vars

\* C23 witness: two constructions have failed with a payload queued and a handler
\* subscribed, and the second retry is pending.
C23_Witness ==
  /\ cfg.base = "malformed" /\ cfg.tokenProvider
  /\ retries = 2 /\ reconnectTimer # NoTimer /\ inflight = 0
  /\ queue # <<>> /\ subscribers # <<>> /\ ~closeCalled

\* the ids of the payloads handed to a transport in this step
HandedIds == {sent'[i].data.id : i \in (Len(sent) + 1)..Len(sent')}

\* the entries of q that are also in the queue after the step, in their order
Kept(q) == SelectSeq(q, LAMBDA e : e \in Range(queue'))

\* C24: an entry leaves the queue only by being handed to the OPEN current
\* transport in a drain or as the oldest entry evicted by a send() on a full queue;
\* the entries that stay keep their order at the front of the queue; transport
\* close events, reconnect scheduling, updateToken() and close() leave the queue as
\* it is, and so does an open event while the current transport is not OPEN.
C24_QueueOnlyDrainsOrEvicts ==
  [][/\ \A i \in 1..Len(queue) :
          queue[i] \notin Range(queue') =>
            \/ /\ queue[i].id \in HandedIds
               /\ OpenStep
               /\ socket # NoSocket /\ rs'[socket] = "OPEN"
            \/ i = 1 /\ nextMsg' = nextMsg + 1 /\ Len(queue) >= cfg.queueMax
     /\ SubSeq(queue', 1, Len(Kept(queue))) = Kept(queue)
     /\ (TransportCloses \/ token' # token \/ closing' # closing
           \/ retries' > retries \/ socket' # socket) => queue' = queue
     /\ (OpenStep /\ nextMsg' = nextMsg
           /\ ~(socket # NoSocket /\ rs'[socket] = "OPEN")) => queue' = queue]_vars

\* C24 witness: with queueMax = 1 the first payload was evicted by the second
\* send(), and the second payload was drained to the second transport after the
\* first transport had closed.
C24_Witness ==
  /\ cfg.queueMax = 1 /\ nextMsg = 3
  /\ rs[1] = "CLOSED" /\ socket = 2 /\ rs[2] = "OPEN"
  /\ Len(sent) = 1 /\ sent[1].data.id = 2 /\ sent[1].sock = 2
  /\ queue = <<>>

\* a step in which a _connect() suspended in _buildUrl resumes
ResumeStep == inflight' < inflight

\* a step in which new WebSocket(url) succeeds
ConstructStep == Created' = Created + 1

\* C25: with no static token, whether the provider is absent, rejects, throws or
\* yields an empty value, the resumed attempt constructs the transport and leaves
\* the retry counter alone; the URL of a transport constructed with no static token
\* carries no token parameter unless the provider supplied one.
C25_ProviderFailureProceeds ==
  [][/\ (ResumeStep /\ cfg.base = "valid") =>
          (ConstructStep /\ rs'[socket'] = "CONNECTING" /\ retries' = retries)
     /\ (ConstructStep /\ ~HasToken(token) /\ ~HasToken(cfg.token)) =>
          (url' = "none" \/ (cfg.tokenProvider /\ url' = "a%26b"))
     /\ (ConstructStep /\ ~HasToken(token) /\ ~HasToken(cfg.token)
           /\ ~cfg.tokenProvider) => url' = "none"]_vars

\* C25 witness: with a provider configured and no token stored, the second attempt
\* went through the provider and its transport was constructed without a token
\* parameter, the retry counter still at the 1 of the first failure.
C25_Witness ==
  /\ cfg.tokenProvider /\ ~HasToken(token) /\ ~closeCalled
  /\ rs[1] = "CLOSED" /\ socket = 2 /\ rs[2] = "CONNECTING"
  /\ url = "none" /\ retries = 1 /\ inflight = 0

\* the scheme joinUrl is to produce for a scheme
TransportScheme(s) ==
  CASE s = HTTP -> WS [] s = HTTPS -> WSS [] OTHER -> s

\* C26: for every base of the model (http, https, ws or wss, with or without a
\* port, with or without trailing slashes) and every path (with or without a
\* leading slash), joinUrl yields the ws/wss scheme, the host as given (no port
\* added), exactly one "/" and the path segment.
C26_JoinUrl ==
  join.out # <<>> =>
    join.out = TransportScheme(join.scheme) \o join.host \o <<"/">> \o join.segment

\* C26 witness: " https://a// " joined with "w/x" gave "wss://a/w/x".
C26_Witness ==
  /\ join.scheme = HTTPS /\ join.host = <<"a">> /\ join.slashes = 2 /\ join.padded
  /\ ~join.leading /\ join.segment = <<"w", "/", "x">>
  /\ join.out = <<"w", "s", "s", ":", "/", "/", "a", "/", "w", "/", "x">>

\* how many times handler h is invoked for one frame with the handlers subs
Invocations(subs, h) == Len(SelectSeq(Invoked(subs, {}), LAMBDA x : x = h))

\* the handlers other than h, in order
Others(subs, h) == SelectSeq(subs, LAMBDA x : x # h)

\* C27: from every reachable subscriber set and for every handler h: after
\* onMessage(h), once or twice, h is invoked once per frame; after the returned
\* function (offMessage(h)) it is invoked no more; neither changes the other
\* handlers; and offMessage of a handler that is not registered changes nothing.
C27_SubscribeUnsubscribe ==
  \A h \in Handlers :
    LET on1 == Subscribed(subscribers, h)
        on2 == Subscribed(on1, h)
        off == Unsubscribed(on1, h)
    IN /\ Invocations(subscribers, h) <= 1
       /\ Invocations(on1, h) = 1
       /\ on2 = on1 /\ Invocations(on2, h) = 1
       /\ Invocations(off, h) = 0
       /\ Others(on1, h) = Others(subscribers, h)
       /\ Others(off, h) = Others(subscribers, h)
       /\ off = Others(subscribers, h)
       /\ h \notin Range(subscribers) => Unsubscribed(subscribers, h) = subscribers

\* C27 witness: a frame was dispatched to h1 and h2, then h1 was unsubscribed and
\* h2 is still registered.
C27_Witness ==
  /\ lastDispatch.to = <<"h1", "h2">>
  /\ subscribers = <<"h2">>

\* C28: between event handlers, whenever the current transport is OPEN the queue
\* is empty.
C28_OpenMeansEmptyQueue ==
  (socket # NoSocket /\ rs[socket] = "OPEN") => queue = <<>>

\* C28 witness: the first payload was queued before the open; the open handed over
\* the observer's payload and then drained the queued one, and the queue is empty
\* with the transport OPEN.
C28_Witness ==
  /\ cfg.onStatus = "sends" /\ socket # NoSocket /\ rs[socket] = "OPEN"
  /\ Len(sent) = 2 /\ sent[1].data.id = 2 /\ sent[2].data.id = 1
  /\ queue = <<>>

\* C29: every payload accepted by send() is handed to a transport at most once,
\* over any number of reconnects: no payload appears twice among those handed
\* over, none is queued twice, and none that was handed over is still queued.
C29_AtMostOnce ==
  /\ \A i, j \in 1..Len(sent) : i # j => sent[i].data.id # sent[j].data.id
  /\ \A i, j \in 1..Len(queue) : i # j => queue[i].id # queue[j].id
  /\ \A i \in 1..Len(sent), j \in 1..Len(queue) : sent[i].data.id # queue[j].id

\* C29 witness: one payload went to the first transport, which then closed, and
\* the other to the second transport after the reconnect.
C29_Witness ==
  /\ rs[1] = "CLOSED" /\ socket = 2 /\ rs[2] = "OPEN"
  /\ Len(sent) = 2 /\ sent[1].sock = 1 /\ sent[2].sock = 2
  /\ queue = <<>>

\* C30: a stored token takes precedence over the token provider.  An attempt
\* suspends on the provider only when no token is stored and a provider is
\* configured; a step never replaces a stored token by undefined; and an attempt
\* that starts while a non-empty token is stored builds its URL with that token.
C30_StoredTokenPrecedence ==
  /\ (inflight > 0 /\ ~micro) => (~HasToken(token) /\ cfg.tokenProvider)
  /\ [][/\ inflight' > inflight => (~HasToken(token) /\ cfg.tokenProvider)
        /\ token' # token => token' # "undefined"
        /\ (HasToken(token) /\ ConstructStep /\ ~ResumeStep) =>
             url' = EncodeURIComponent(token)]_vars

\* C30 witness: a provider is configured, the constructor had no token,
\* updateToken stored one, and the second transport was built with it.
C30_Witness ==
  /\ cfg.tokenProvider /\ cfg.token = "undefined" /\ token = "tok"
  /\ socket = 2 /\ rs[2] = "CONNECTING" /\ url = "tok" /\ inflight = 0

====
